---- MODULE Spec2Model ----
(***************************************************************************)
(* Model of scripts/build_docs.py (the primary documentation pipeline) and *)
(* scripts/convert_repo_to_pdf.py (the aggregation pipeline).              *)
(*                                                                         *)
(* Strings are sequences of one-character strings, ordered by code point   *)
(* as Python orders them; a path is the sequence of its segments, as       *)
(* pathlib's Path.parts.  Texts handed to clean_text are sequences of      *)
(* tokens: single characters plus the two boilerplate lines as one token   *)
(* each (no other token sequence of the alphabet spells a boilerplate      *)
(* prefix, so prefix matching on tokens is exact).                         *)
(***************************************************************************)
EXTENDS Integers, Sequences, FiniteSets, TLC

VARIABLES
    script,     \* which program runs
    pc,         \* position of the running program
    tree,       \* files of the repository before the run (repo-relative paths)
    tools,      \* [pandoc, jupyter, mkdocs]: what shutil.which finds
    pdfFlag,    \* args.build_pdf
    converted,  \* sources generate_docs has taken from gather_sources
    dirs,       \* output directories that exist
    files,      \* output files: path -> content
    tocDoc,     \* what this run wrote to TOC_PATH (<<>> before)
    tocWritten, \* whether this run wrote TOC_PATH
    log,        \* the calls made so far, in order
    err,        \* the exception that ended the run, "none" otherwise
    aggPaths,   \* build_markdown: the list `paths`
    aggIdx,     \* build_markdown: index of the next path of the loop
    sections,   \* build_markdown: the list `sections`
    notices,    \* build_markdown: the "Skipping ..." lines printed
    aggResult,  \* build_markdown's return value
    text,       \* clean_text: the input
    out1,       \* clean_text(text)
    out2,       \* clean_text(clean_text(text))
    srcIdx,     \* gather_sources: index into SOURCE_DIRS
    visited,    \* gather_sources: paths rglob has produced for the current directory
    yielded     \* gather_sources: the paths yielded so far

vars == <<script, pc, tree, tools, pdfFlag, converted, dirs, files, tocDoc,
          tocWritten, log, err, aggPaths, aggIdx, sections, notices, aggResult,
          text, out1, out2, srcIdx, visited, yielded>>

buildVars == <<tools, pdfFlag, converted, dirs, files, tocDoc, tocWritten>>
aggVars   == <<aggPaths, aggIdx, sections, notices, aggResult>>
cleanVars == <<text, out1, out2>>
scanVars  == <<srcIdx, visited, yielded>>

----------------------------------------------------------------------------
(* Bounds *)

\* at most this many files in the repository tree
MaxFiles == 3
\* at most this many tokens in a text handed to clean_text
MaxTextLen == 4

----------------------------------------------------------------------------
(* Characters and strings *)

LowerLetters ==
    <<"a", "b", "c", "d", "e", "f", "g", "h", "i", "j", "k", "l", "m", "n", "o", "p", "q", "r", "s", "t", "u", "v", "w", "x", "y", "z">>
UpperLetters ==
    <<"A", "B", "C", "D", "E", "F", "G", "H", "I", "J", "K", "L", "M", "N", "O", "P", "Q", "R", "S", "T", "U", "V", "W", "X", "Y", "Z">>

InSeq(c, letters) == \E i \in 1..Len(letters) : letters[i] = c
IndexIn(c, letters) == CHOOSE i \in 1..Len(letters) : letters[i] = c

\* ord(c) for the characters of the model's names
Code(c) ==
    IF InSeq(c, UpperLetters) THEN 64 + IndexIn(c, UpperLetters)
    ELSE IF InSeq(c, LowerLetters) THEN 96 + IndexIn(c, LowerLetters)
    ELSE CASE c = " " -> 32 [] c = "#" -> 35 [] c = "-" -> 45 [] c = "." -> 46
           [] c = "/" -> 47 [] c = "_" -> 95

\* str.lower() on one character
Lower(c) ==
    IF InSeq(c, UpperLetters) THEN LowerLetters[IndexIn(c, UpperLetters)] ELSE c

\* str.upper() on one character
Upper(c) ==
    IF InSeq(c, LowerLetters) THEN UpperLetters[IndexIn(c, LowerLetters)] ELSE c

\* str.isalpha() on one character
IsLetter(c) == Lower(c) # Upper(c)

\* s.lower()
LowerStr(s) == [i \in 1..Len(s) |-> Lower(s[i])]

\* Python's s < t on strings: the first differing code point decides, a proper
\* prefix is smaller
StrLess(s, t) ==
    \E i \in 1..(Len(t)) :
        /\ \A j \in 1..(i - 1) : j <= Len(s) /\ s[j] = t[j]
        /\ \/ i = Len(s) + 1
           \/ i <= Len(s) /\ Code(s[i]) < Code(t[i])

\* Path.__lt__: the parts compared as a sequence of strings
PathLess(p, q) ==
    \E i \in 1..(Len(q)) :
        /\ \A j \in 1..(i - 1) : j <= Len(p) /\ p[j] = q[j]
        /\ \/ i = Len(p) + 1
           \/ i <= Len(p) /\ StrLess(p[i], q[i])

\* sorted(...) over a set of distinct paths
RECURSIVE SortPaths(_)
SortPaths(S) ==
    IF S = {} THEN <<>>
    ELSE LET m == CHOOSE x \in S : \A y \in S \ {x} : PathLess(x, y)
         IN  <<m>> \o SortPaths(S \ {m})

\* sort_keys=True: the keys in string order
RECURSIVE SortKeys(_)
SortKeys(S) ==
    IF S = {} THEN <<>>
    ELSE LET m == CHOOSE x \in S : \A y \in S \ {x} : StrLess(x, y)
         IN  <<m>> \o SortKeys(S \ {m})

\* Index of the last "." of a name, 0 when there is none (str.rfind + 1)
LastDot(name) ==
    IF \E i \in 1..Len(name) : name[i] = "."
    THEN CHOOSE i \in 1..Len(name) :
            name[i] = "." /\ \A j \in (i + 1)..Len(name) : name[j] # "."
    ELSE 0

\* PurePath.suffix: the final component's last dot-part, empty when the dot
\* leads or ends the name
Suffix(p) ==
    LET name == p[Len(p)]
        i    == LastDot(name)
    IN  IF 1 < i /\ i < Len(name) THEN SubSeq(name, i, Len(name)) ELSE <<>>

\* PurePath.stem
Stem(p) ==
    LET name == p[Len(p)]
        i    == LastDot(name)
    IN  IF 1 < i /\ i < Len(name) THEN SubSeq(name, 1, i - 1) ELSE name

\* str(path): the parts joined by "/"
RECURSIVE PathStr(_)
PathStr(p) ==
    IF Len(p) = 0 THEN <<>>
    ELSE IF Len(p) = 1 THEN p[1]
    ELSE p[1] \o <<"/">> \o PathStr(Tail(p))

----------------------------------------------------------------------------
(* convert_repo_to_pdf.py: clean_text *)

SHEBANG == "#!/usr/bin/env python"
CODING  == "# coding: utf-8"

\* the lines DROP_PATTERNS match at their start
DROP_PATTERNS == {SHEBANG, CODING}

\* tokens of the texts handed to clean_text
Tokens == {"a", " ", "\n", "\r", SHEBANG, CODING}

IsSpace(c) == c \in {" ", "\n", "\r"}

\* str.splitlines(): "\n", "\r" and "\r\n" end a line; no empty last line
\* after a final line end
RECURSIVE SplitFrom(_, _, _, _)
SplitFrom(t, i, cur, acc) ==
    IF i > Len(t) THEN (IF cur # <<>> THEN Append(acc, cur) ELSE acc)
    ELSE IF t[i] = "\n" THEN SplitFrom(t, i + 1, <<>>, Append(acc, cur))
    ELSE IF t[i] = "\r" THEN
        IF i + 1 <= Len(t) /\ t[i + 1] = "\n"
        THEN SplitFrom(t, i + 2, <<>>, Append(acc, cur))
        ELSE SplitFrom(t, i + 1, <<>>, Append(acc, cur))
    ELSE SplitFrom(t, i + 1, Append(cur, t[i]), acc)

SplitLines(t) == SplitFrom(t, 1, <<>>, <<>>)

\* str.rstrip()
RECURSIVE RStrip(_)
RStrip(l) ==
    IF l # <<>> /\ IsSpace(l[Len(l)]) THEN RStrip(SubSeq(l, 1, Len(l) - 1)) ELSE l

\* str.lstrip()
RECURSIVE LStrip(_)
LStrip(l) ==
    IF l # <<>> /\ IsSpace(l[1]) THEN LStrip(Tail(l)) ELSE l

\* str.strip()
Strip(l) == LStrip(RStrip(l))

\* any(p.match(line.strip()) for p in DROP_PATTERNS)
Dropped(line) ==
    LET s == Strip(line) IN s # <<>> /\ s[1] \in DROP_PATTERNS

\* "\n".join(lines)
RECURSIVE JoinNL(_)
JoinNL(ls) ==
    IF ls = <<>> THEN <<>>
    ELSE IF Len(ls) = 1 THEN ls[1]
    ELSE ls[1] \o <<"\n">> \o JoinNL(Tail(ls))

\* the loop of clean_text: the retained lines, right-stripped
RECURSIVE KeptLines(_)
KeptLines(ls) ==
    IF ls = <<>> THEN <<>>
    ELSE IF Dropped(ls[1]) THEN KeptLines(Tail(ls))
    ELSE <<RStrip(ls[1])>> \o KeptLines(Tail(ls))

clean_text(t) == JoinNL(KeptLines(SplitLines(t)))

Texts == UNION {[1..n -> Tokens] : n \in 0..MaxTextLen}

----------------------------------------------------------------------------
(* Names: the strings of the model, spelled as character sequences *)

N_articles == <<"a", "r", "t", "i", "c", "l", "e", "s">>
N_examples == <<"e", "x", "a", "m", "p", "l", "e", "s">>
N_docs == <<"d", "o", "c", "s">>
N_build == <<"b", "u", "i", "l", "d">>
N_sub == <<"s", "u", "b">>
N_sub_x == <<"s", "u", "b", "-", "x">>
N_other == <<"o", "t", "h", "e", "r">>
N_dist == <<"d", "i", "s", "t">>
N_toc_yaml == <<"t", "o", "c", ".", "y", "a", "m", "l">>
N_pdf == <<"O", "p", "e", "n", "A", "I", "_", "C", "o", "o", "k", "b", "o", "o", "k", ".", "p", "d", "f">>
N_index_md == <<"i", "n", "d", "e", "x", ".", "m", "d">>
N_slash == <<"/">>
N_repo == <<"r", "e", "p", "o">>
N_html == <<"o", "p", "e", "n", "a", "i", "_", "c", "o", "o", "k", "b", "o", "o", "k", ".", "h", "t", "m", "l">>
N_out_pdf == <<"o", "p", "e", "n", "a", "i", "_", "c", "o", "o", "k", "b", "o", "o", "k", ".", "p", "d", "f">>
N_README_md == <<"R", "E", "A", "D", "M", "E", ".", "m", "d">>
N_a_md == <<"a", ".", "m", "d">>
N_a_ipynb == <<"a", ".", "i", "p", "y", "n", "b">>
N_b_mdx == <<"b", ".", "m", "d", "x">>
N_c_MD == <<"c", ".", "M", "D">>
N_b_ipynb == <<"b", ".", "i", "p", "y", "n", "b">>
N_c_txt == <<"c", ".", "t", "x", "t">>
N_dot_md == <<".", "m", "d">>
N_x_md == <<"x", ".", "m", "d">>
N_old_md == <<"o", "l", "d", ".", "m", "d">>
E_md == <<".", "m", "d">>
E_mdx == <<".", "m", "d", "x">>
E_ipynb == <<".", "i", "p", "y", "n", "b">>

----------------------------------------------------------------------------
(* build_docs.py: constants and the repository tree *)

SOURCE_DIRS == << <<N_articles>>, <<N_examples>> >>
BUILD_DIR   == <<N_docs, N_build>>
TOC_PATH    == <<N_docs, N_toc_yaml>>
PDF_PATH    == <<N_dist, N_pdf>>
README      == <<N_README_md>>

\* exts of gather_sources
exts == {E_md, E_mdx, E_ipynb}

\* the files a repository tree is drawn from
FileUniverse ==
    { <<N_articles, N_a_md>>,
      <<N_articles, N_a_ipynb>>,
      <<N_articles, N_sub, N_b_mdx>>,
      <<N_articles, N_sub_x, N_c_MD>>,
      <<N_articles, N_c_txt>>,
      <<N_examples, N_a_md>>,
      <<N_examples, N_sub, N_b_ipynb>>,
      <<N_examples, N_dot_md>>,
      <<N_other, N_x_md>>,
      README }

Trees == {t \in SUBSET FileUniverse : Cardinality(t) <= MaxFiles}

IsPrefix(d, p) == Len(d) <= Len(p) /\ SubSeq(p, 1, Len(d)) = d

\* every directory above p
Ancestors(p) == {SubSeq(p, 1, n) : n \in 1..(Len(p) - 1)}

\* d.rglob("*"): every file and directory below d (nothing when d is absent)
RGlobAll(t, d) ==
    UNION {{SubSeq(f, 1, n) : n \in (Len(d) + 1)..Len(f)} :
              f \in {g \in t : IsPrefix(d, g)}}

\* gather_sources without .lower(): the suffix compared as spelled
IsSource_NoLower(p) == Suffix(p) \in exts

\* the test of gather_sources: path.suffix.lower() in exts
IsSource(p) == LowerStr(Suffix(p)) \in exts

NoFiles == [p \in {} |-> <<>>]
NoTools == [pandoc |-> FALSE, jupyter |-> FALSE, mkdocs |-> FALSE]

BuildIdle ==
    /\ tools = NoTools /\ pdfFlag = FALSE /\ converted = {} /\ dirs = {}
    /\ files = NoFiles /\ tocDoc = <<>> /\ tocWritten = FALSE
AggIdle ==
    /\ aggPaths = <<>> /\ aggIdx = 0 /\ sections = <<>> /\ notices = <<>>
    /\ aggResult = <<>>
CleanIdle == text = <<>> /\ out1 = <<>> /\ out2 = <<>>
ScanIdle  == srcIdx = 0 /\ visited = {} /\ yielded = <<>>

----------------------------------------------------------------------------
(* clean_text applied once and again *)

InitClean ==
    /\ script = "clean_text" /\ pc = "start"
    /\ text \in Texts /\ out1 = <<>> /\ out2 = <<>>
    /\ tree = {} /\ log = <<>> /\ err = "none"
    /\ BuildIdle /\ AggIdle /\ ScanIdle

CleanOnce ==
    /\ script = "clean_text" /\ pc = "start"
    /\ out1' = clean_text(text)
    /\ pc' = "cleaned"
    /\ UNCHANGED <<script, tree, log, err, text, out2, buildVars, aggVars, scanVars>>

CleanAgain ==
    /\ script = "clean_text" /\ pc = "cleaned"
    /\ out2' = clean_text(out1)
    /\ pc' = "recleaned"
    /\ UNCHANGED <<script, tree, log, err, text, out1, buildVars, aggVars, scanVars>>

NextClean == CleanOnce \/ CleanAgain

SpecClean == InitClean /\ [][NextClean]_vars

----------------------------------------------------------------------------
(* gather_sources drained on its own *)

InitScan ==
    /\ script = "gather_sources" /\ pc = "scan"
    /\ tree \in Trees
    /\ srcIdx = 1 /\ visited = {} /\ yielded = <<>>
    /\ log = <<>> /\ err = "none"
    /\ BuildIdle /\ AggIdle /\ CleanIdle

\* one turn of `for path in src_dir.rglob("*")`: rglob's order is the
\* directory listing's, any order
ScanVisit ==
    /\ script = "gather_sources" /\ pc = "scan"
    /\ \E p \in RGlobAll(tree, SOURCE_DIRS[srcIdx]) \ visited :
        /\ visited' = visited \cup {p}
        /\ yielded' = IF IsSource(p) THEN Append(yielded, p) ELSE yielded
    /\ UNCHANGED <<script, pc, tree, log, err, srcIdx, buildVars, aggVars, cleanVars>>

\* the inner loop is exhausted: the next of SOURCE_DIRS, or the end
ScanNextDir ==
    /\ script = "gather_sources" /\ pc = "scan"
    /\ RGlobAll(tree, SOURCE_DIRS[srcIdx]) \subseteq visited
    /\ IF srcIdx < Len(SOURCE_DIRS)
       THEN srcIdx' = srcIdx + 1 /\ pc' = "scan"
       ELSE srcIdx' = srcIdx /\ pc' = "done"
    /\ visited' = {}
    /\ UNCHANGED <<script, tree, log, err, yielded, buildVars, aggVars, cleanVars>>

NextScan == ScanVisit \/ ScanNextDir

SpecScan == InitScan /\ [][NextScan]_vars

----------------------------------------------------------------------------
(* build_docs.py: the primary pipeline *)

\* one call of the run and how it ended ("none": it returned)
Ev(op, arg, via, raised) == [op |-> op, arg |-> arg, via |-> via, raised |-> raised]

\* file contents: a source's bytes, and what each converter makes of them
Raw(p)  == <<"raw", p>>
Gfm(p)  == <<"gfm", p>>
NbMd(p) == <<"nbconvert", p>>

\* path.with_suffix(".md")
WithSuffixMd(p) ==
    LET name == p[Len(p)]
        base == SubSeq(name, 1, Len(name) - Len(Suffix(p)))
    IN  SubSeq(p, 1, Len(p) - 1) \o <<base \o E_md>>

\* generate_docs: dest = BUILD_DIR / root / rel.with_suffix(".md")
Dest(src) ==
    LET root == src[1]
        rel  == Tail(src)
    IN  BUILD_DIR \o <<root>> \o WithSuffixMd(rel)

\* what gather_sources yields from SOURCE_DIRS[d]
Sources(t, d) == {p \in RGlobAll(t, SOURCE_DIRS[d]) : IsSource(p)}

\* everything gather_sources yields
AllSources(t) == UNION {Sources(t, d) : d \in 1..Len(SOURCE_DIRS)}

\* the sources the generator may yield next: those left in the first of
\* SOURCE_DIRS that has any left
NextSources ==
    LET left == {d \in 1..Len(SOURCE_DIRS) : Sources(tree, d) \ converted # {}}
    IN  IF left = {} THEN {}
        ELSE LET d == CHOOSE x \in left : \A y \in left : x <= y
             IN  Sources(tree, d) \ converted

\* the file at path d gets content c
WriteFile(fs, d, c) == [p \in DOMAIN fs \cup {d} |-> IF p = d THEN c ELSE fs[p]]

\* dest.parent.mkdir(parents=True, exist_ok=True)
MkdirParents(ds, d) == ds \cup Ancestors(d)

\* what an earlier run may have left under docs/
StaleFile == BUILD_DIR \o <<N_articles, N_old_md>>
PriorOutputs ==
    { [dirs |-> {}, files |-> NoFiles],
      [dirs |-> Ancestors(StaleFile), files |-> WriteFile(NoFiles, StaleFile, <<"stale">>)] }

InitBuild ==
    /\ script = "build_docs" /\ pc = "generate_docs"
    /\ tree \in Trees
    /\ tools \in [pandoc : BOOLEAN, jupyter : BOOLEAN, mkdocs : BOOLEAN]
    /\ pdfFlag \in BOOLEAN
    /\ converted = {}
    /\ \E o \in PriorOutputs : dirs = o.dirs /\ files = o.files
    /\ tocDoc = <<>> /\ tocWritten = FALSE
    /\ log = <<>> /\ err = "none"
    /\ AggIdle /\ CleanIdle /\ ScanIdle

\* an uncaught exception ends the run
Raise(e) == pc' = "failed" /\ err' = e

\* convert_markdown without the fallback: a missing pandoc raises
ConvertMarkdown_NoFallback ==
    /\ script = "build_docs" /\ pc = "generate_docs"
    /\ \E src \in NextSources :
        /\ LowerStr(Suffix(src)) \in {E_md, E_mdx}
        /\ converted' = converted \cup {src}
        /\ dirs' = MkdirParents(dirs, Dest(src))
        /\ IF tools.pandoc
           THEN \/ /\ files' = WriteFile(files, Dest(src), Gfm(src))
                   /\ log' = Append(log, Ev("convert_markdown", src, "pandoc", "none"))
                   /\ UNCHANGED <<pc, err>>
                \/ /\ log' = Append(log, Ev("convert_markdown", src, "pandoc", "CalledProcessError"))
                   /\ Raise("CalledProcessError")
                   /\ UNCHANGED files
           ELSE /\ log' = Append(log, Ev("convert_markdown", src, "missing", "RuntimeError"))
                /\ Raise("RuntimeError")
                /\ UNCHANGED files
    /\ UNCHANGED <<script, tree, tools, pdfFlag, tocDoc, tocWritten, aggVars, cleanVars, scanVars>>

\* convert_markdown(src, dest), called by generate_docs for .md and .mdx
ConvertMarkdown ==
    /\ script = "build_docs" /\ pc = "generate_docs"
    /\ \E src \in NextSources :
        /\ LowerStr(Suffix(src)) \in {E_md, E_mdx}
        /\ converted' = converted \cup {src}
        /\ dirs' = MkdirParents(dirs, Dest(src))
        /\ IF tools.pandoc
           THEN \/ /\ files' = WriteFile(files, Dest(src), Gfm(src))
                   /\ log' = Append(log, Ev("convert_markdown", src, "pandoc", "none"))
                   /\ UNCHANGED <<pc, err>>
                \/ /\ log' = Append(log, Ev("convert_markdown", src, "pandoc", "CalledProcessError"))
                   /\ Raise("CalledProcessError")
                   /\ UNCHANGED files
           ELSE /\ files' = WriteFile(files, Dest(src), Raw(src))
                /\ log' = Append(log, Ev("convert_markdown", src, "copy", "none"))
                /\ UNCHANGED <<pc, err>>
    /\ UNCHANGED <<script, tree, tools, pdfFlag, tocDoc, tocWritten, aggVars, cleanVars, scanVars>>

\* convert_notebook that skips the notebook when jupyter is missing
ConvertNotebook_Skip ==
    /\ script = "build_docs" /\ pc = "generate_docs"
    /\ \E src \in NextSources :
        /\ LowerStr(Suffix(src)) \notin {E_md, E_mdx}
        /\ LowerStr(Suffix(src)) = E_ipynb
        /\ converted' = converted \cup {src}
        /\ dirs' = MkdirParents(dirs, Dest(src))
        /\ IF tools.jupyter
           THEN \/ /\ files' = WriteFile(files, Dest(src), NbMd(src))
                   /\ log' = Append(log, Ev("convert_notebook", src, "jupyter", "none"))
                   /\ UNCHANGED <<pc, err>>
                \/ /\ log' = Append(log, Ev("convert_notebook", src, "jupyter", "CalledProcessError"))
                   /\ Raise("CalledProcessError")
                   /\ UNCHANGED files
           ELSE /\ log' = Append(log, Ev("convert_notebook", src, "missing", "none"))
                /\ UNCHANGED <<pc, err, files>>
    /\ UNCHANGED <<script, tree, tools, pdfFlag, tocDoc, tocWritten, aggVars, cleanVars, scanVars>>

\* convert_notebook(src, dest), called by generate_docs for .ipynb
ConvertNotebook ==
    /\ script = "build_docs" /\ pc = "generate_docs"
    /\ \E src \in NextSources :
        /\ LowerStr(Suffix(src)) \notin {E_md, E_mdx}
        /\ LowerStr(Suffix(src)) = E_ipynb
        /\ converted' = converted \cup {src}
        /\ dirs' = MkdirParents(dirs, Dest(src))
        /\ IF tools.jupyter
           THEN \/ /\ files' = WriteFile(files, Dest(src), NbMd(src))
                   /\ log' = Append(log, Ev("convert_notebook", src, "jupyter", "none"))
                   /\ UNCHANGED <<pc, err>>
                \/ /\ log' = Append(log, Ev("convert_notebook", src, "jupyter", "CalledProcessError"))
                   /\ Raise("CalledProcessError")
                   /\ UNCHANGED files
           ELSE /\ log' = Append(log, Ev("convert_notebook", src, "missing", "RuntimeError"))
                /\ Raise("RuntimeError")
                /\ UNCHANGED files
    /\ UNCHANGED <<script, tree, tools, pdfFlag, tocDoc, tocWritten, aggVars, cleanVars, scanVars>>

\* the end of generate_docs: the README copied to BUILD_DIR / "index.md";
\* shutil.copy raises when the directory it writes into does not exist
CopyReadme ==
    /\ script = "build_docs" /\ pc = "generate_docs"
    /\ NextSources = {}
    /\ IF README \in tree
       THEN IF BUILD_DIR \in dirs
            THEN /\ files' = WriteFile(files, BUILD_DIR \o <<N_index_md>>, Raw(README))
                 /\ log' = Append(log, Ev("copy_readme", README, "copy", "none"))
                 /\ pc' = "generate_toc"
                 /\ UNCHANGED err
            ELSE /\ log' = Append(log, Ev("copy_readme", README, "copy", "FileNotFoundError"))
                 /\ Raise("FileNotFoundError")
                 /\ UNCHANGED files
       ELSE /\ pc' = "generate_toc"
            /\ UNCHANGED <<files, log, err>>
    /\ UNCHANGED <<script, tree, tools, pdfFlag, converted, dirs, tocDoc, tocWritten,
                   aggVars, cleanVars, scanVars>>

\* fnmatch of a name against "*" + e (case-sensitive, as on POSIX)
EndsWith(name, e) ==
    Len(name) >= Len(e) /\ SubSeq(name, Len(name) - Len(e) + 1, Len(name)) = e

\* BUILD_DIR.rglob("*.md") over the output files
BuildMarkdownFiles(fs) ==
    {f \in DOMAIN fs : IsPrefix(BUILD_DIR, f) /\ Len(f) > Len(BUILD_DIR)
                        /\ EndsWith(f[Len(f)], E_md)}

\* path.relative_to(root)
RelativeTo(p, root) == SubSeq(p, Len(root) + 1, Len(p))

\* str.replace("_", " ")
ReplaceUnderscore(s) == [i \in 1..Len(s) |-> IF s[i] = "_" THEN " " ELSE s[i]]

\* str.title(): a letter after a letter is lowered, any other letter raised
TitleCase(s) ==
    [i \in 1..Len(s) |->
        IF i > 1 /\ IsLetter(s[i - 1]) THEN Lower(s[i]) ELSE Upper(s[i])]

\* the entry generate_toc makes for one file
TocEntry(md) ==
    [title |-> TitleCase(ReplaceUnderscore(Stem(md))),
     path  |-> PathStr(RelativeTo(md, BUILD_DIR))]

\* generate_toc with toc[section] = [entry] in place of setdefault/append
RECURSIVE TocFill_Overwrite(_, _)
TocFill_Overwrite(toc, mds) ==
    IF mds = <<>> THEN toc
    ELSE LET md      == mds[1]
             section == RelativeTo(md, BUILD_DIR)[1]
         IN  TocFill_Overwrite([k \in DOMAIN toc \cup {section} |->
                                   IF k = section THEN <<TocEntry(md)>> ELSE toc[k]],
                               Tail(mds))

\* the loop of generate_toc: toc.setdefault(section, []).append(entry)
RECURSIVE TocFill(_, _)
TocFill(toc, mds) ==
    IF mds = <<>> THEN toc
    ELSE LET md      == mds[1]
             section == RelativeTo(md, BUILD_DIR)[1]
             before  == IF section \in DOMAIN toc THEN toc[section] ELSE <<>>
         IN  TocFill([k \in DOMAIN toc \cup {section} |->
                         IF k = section THEN Append(before, TocEntry(md)) ELSE toc[k]],
                     Tail(mds))

\* yaml.safe_dump(toc, sort_keys=True): the sections in key order
SafeDump(toc) ==
    LET keys == SortKeys(DOMAIN toc)
    IN  [i \in 1..Len(keys) |-> [section |-> keys[i], entries |-> toc[keys[i]]]]

TocOf(fs) == SafeDump(TocFill(NoFiles, SortPaths(BuildMarkdownFiles(fs))))

generate_toc ==
    /\ script = "build_docs" /\ pc = "generate_toc"
    /\ dirs' = MkdirParents(dirs, TOC_PATH)
    /\ tocDoc' = TocOf(files)
    /\ tocWritten' = TRUE
    /\ log' = Append(log, Ev("generate_toc", TOC_PATH, "yaml", "none"))
    /\ pc' = "build_html"
    /\ UNCHANGED <<script, tree, tools, pdfFlag, converted, files, err,
                   aggVars, cleanVars, scanVars>>

\* build_html that swallows a failed mkdocs and lets main go on
build_html_Swallow ==
    /\ script = "build_docs" /\ pc = "build_html"
    /\ IF tools.mkdocs
       THEN \/ /\ log' = Append(log, Ev("build_html", <<>>, "mkdocs", "none"))
               /\ pc' = IF pdfFlag THEN "build_pdf" ELSE "done"
               /\ UNCHANGED err
            \/ /\ log' = Append(log, Ev("build_html", <<>>, "mkdocs", "CalledProcessError"))
               /\ pc' = IF pdfFlag THEN "build_pdf" ELSE "done"
               /\ UNCHANGED err
       ELSE /\ log' = Append(log, Ev("build_html", <<>>, "missing", "RuntimeError"))
            /\ Raise("RuntimeError")
    /\ UNCHANGED <<script, tree, buildVars, aggVars, cleanVars, scanVars>>

build_html ==
    /\ script = "build_docs" /\ pc = "build_html"
    /\ IF tools.mkdocs
       THEN \/ /\ log' = Append(log, Ev("build_html", <<>>, "mkdocs", "none"))
               /\ pc' = IF pdfFlag THEN "build_pdf" ELSE "done"
               /\ UNCHANGED err
            \/ /\ log' = Append(log, Ev("build_html", <<>>, "mkdocs", "CalledProcessError"))
               /\ Raise("CalledProcessError")
       ELSE /\ log' = Append(log, Ev("build_html", <<>>, "missing", "RuntimeError"))
            /\ Raise("RuntimeError")
    /\ UNCHANGED <<script, tree, buildVars, aggVars, cleanVars, scanVars>>

build_pdf ==
    /\ script = "build_docs" /\ pc = "build_pdf"
    /\ IF ~tools.pandoc
       THEN /\ log' = Append(log, Ev("build_pdf", <<>>, "missing", "RuntimeError"))
            /\ Raise("RuntimeError")
            /\ UNCHANGED <<dirs, files>>
       ELSE /\ dirs' = MkdirParents(dirs, PDF_PATH)
            /\ \/ /\ files' = WriteFile(files, PDF_PATH,
                                        <<"pdf", SortPaths(BuildMarkdownFiles(files))>>)
                  /\ log' = Append(log, Ev("build_pdf", <<>>, "pandoc", "none"))
                  /\ pc' = "done"
                  /\ UNCHANGED err
               \/ /\ log' = Append(log, Ev("build_pdf", <<>>, "pandoc", "CalledProcessError"))
                  /\ Raise("CalledProcessError")
                  /\ UNCHANGED files
    /\ UNCHANGED <<script, tree, tools, pdfFlag, converted, tocDoc, tocWritten,
                   aggVars, cleanVars, scanVars>>

NextBuild ==
    \/ ConvertMarkdown
    \/ ConvertNotebook
    \/ CopyReadme
    \/ generate_toc
    \/ build_html
    \/ build_pdf

SpecBuild == InitBuild /\ [][NextBuild]_vars

----------------------------------------------------------------------------
(* convert_repo_to_pdf.py: the aggregation pipeline *)

\* repo_root of main: the directory above scripts/
REPO_ROOT == <<N_slash, N_repo>>

\* repo_root.rglob("*" + e): every path of the tree whose name matches
RGlobExt(t, e) ==
    {REPO_ROOT \o q : q \in {r \in RGlobAll(t, <<>>) : EndsWith(r[Len(r)], e)}}

\* build_markdown listing the Markdown files before the notebooks
DiscoverPaths_MdFirst(t) == SortPaths(RGlobExt(t, E_md)) \o SortPaths(RGlobExt(t, E_ipynb))

\* the first line of build_markdown
DiscoverPaths(t) == SortPaths(RGlobExt(t, E_ipynb)) \o SortPaths(RGlobExt(t, E_md))

\* what reading a file (or exporting a notebook) may return
TextPool == { <<"a">>, <<SHEBANG, "\n", "a", " ", "\n", "a">> }

\* f"# {rel}\n\n{content}\n"
Section(rel, content) ==
    <<"#", " ">> \o PathStr(rel) \o <<"\n", "\n">> \o content \o <<"\n">>

InitAgg ==
    /\ script = "convert_repo_to_pdf" /\ pc = "build_markdown"
    /\ tree \in Trees
    /\ aggPaths = <<>> /\ aggIdx = 0 /\ sections = <<>> /\ notices = <<>>
    /\ aggResult = <<>>
    /\ log = <<>> /\ err = "none"
    /\ BuildIdle /\ CleanIdle /\ ScanIdle

\* build_markdown: paths = sorted(...) + sorted(...); sections = []
AggDiscover ==
    /\ script = "convert_repo_to_pdf" /\ pc = "build_markdown"
    /\ aggPaths' = DiscoverPaths(tree)
    /\ aggIdx' = 1
    /\ sections' = <<>>
    /\ pc' = "loop"
    /\ UNCHANGED <<script, tree, log, err, notices, aggResult, buildVars, cleanVars, scanVars>>

\* build_markdown without the try/except: a failing conversion ends the run
AggConvert_Propagate ==
    /\ script = "convert_repo_to_pdf" /\ pc = "loop"
    /\ aggIdx <= Len(aggPaths)
    /\ LET path == aggPaths[aggIdx]
           via  == IF Suffix(path) = E_ipynb THEN "notebook_to_markdown"
                   ELSE "markdown_file_to_markdown"
       IN  \/ \E body \in TextPool :
                /\ sections' = Append(sections,
                                      Section(RelativeTo(path, REPO_ROOT), clean_text(body)))
                /\ log' = Append(log, Ev("convert", path, via, "none"))
                /\ aggIdx' = aggIdx + 1
                /\ UNCHANGED <<pc, err>>
           \/ /\ log' = Append(log, Ev("convert", path, via, "Exception"))
              /\ Raise("Exception")
              /\ UNCHANGED <<sections, aggIdx>>
    /\ UNCHANGED <<script, tree, notices, aggPaths, aggResult, buildVars, cleanVars, scanVars>>

\* one turn of the loop of build_markdown: the conversion returns a body, or
\* raises and the file is skipped with a notice
AggConvert ==
    /\ script = "convert_repo_to_pdf" /\ pc = "loop"
    /\ aggIdx <= Len(aggPaths)
    /\ LET path == aggPaths[aggIdx]
           via  == IF Suffix(path) = E_ipynb THEN "notebook_to_markdown"
                   ELSE "markdown_file_to_markdown"
       IN  \/ \E body \in TextPool :
                /\ sections' = Append(sections,
                                      Section(RelativeTo(path, REPO_ROOT), clean_text(body)))
                /\ log' = Append(log, Ev("convert", path, via, "none"))
                /\ UNCHANGED notices
           \/ /\ notices' = Append(notices, path)
              /\ log' = Append(log, Ev("convert", path, via, "Exception"))
              /\ UNCHANGED sections
    /\ aggIdx' = aggIdx + 1
    /\ UNCHANGED <<script, pc, tree, err, aggPaths, aggResult, buildVars, cleanVars, scanVars>>

\* return "\n".join(sections)
AggReturn ==
    /\ script = "convert_repo_to_pdf" /\ pc = "loop"
    /\ aggIdx > Len(aggPaths)
    /\ aggResult' = JoinNL(sections)
    /\ pc' = "render_html"
    /\ UNCHANGED <<script, tree, log, err, aggPaths, aggIdx, sections, notices,
                   buildVars, cleanVars, scanVars>>

\* render_html(markdown_text, css_path): reading the stylesheet may raise
render_html ==
    /\ script = "convert_repo_to_pdf" /\ pc = "render_html"
    /\ \/ /\ log' = Append(log, Ev("render_html", <<>>, "markdown", "none"))
          /\ pc' = "write_pdf"
          /\ UNCHANGED err
       \/ /\ log' = Append(log, Ev("render_html", <<>>, "markdown", "FileNotFoundError"))
          /\ Raise("FileNotFoundError")
    /\ UNCHANGED <<script, tree, buildVars, aggVars, cleanVars, scanVars>>

\* html_path.write_text(html); pdfkit.from_file(html_path, pdf_path)
write_pdf ==
    /\ script = "convert_repo_to_pdf" /\ pc = "write_pdf"
    /\ \/ /\ files' = WriteFile(WriteFile(files, REPO_ROOT \o <<N_html>>, <<"html", aggResult>>),
                                REPO_ROOT \o <<N_out_pdf>>, <<"pdf", aggResult>>)
          /\ log' = Append(log, Ev("from_file", <<>>, "pdfkit", "none"))
          /\ pc' = "done"
          /\ UNCHANGED err
       \/ /\ files' = WriteFile(files, REPO_ROOT \o <<N_html>>, <<"html", aggResult>>)
          /\ log' = Append(log, Ev("from_file", <<>>, "pdfkit", "OSError"))
          /\ Raise("OSError")
    /\ UNCHANGED <<script, tree, tools, pdfFlag, converted, dirs, tocDoc, tocWritten,
                   aggVars, cleanVars, scanVars>>

NextAgg ==
    \/ AggDiscover
    \/ AggConvert
    \/ AggReturn
    \/ render_html
    \/ write_pdf

SpecAgg == InitAgg /\ [][NextAgg]_vars

----------------------------------------------------------------------------
(* Both programs *)

Init == InitBuild \/ InitAgg

Next == NextBuild \/ NextAgg

Spec == Init /\ [][Next]_vars

----------------------------------------------------------------------------
(* Properties *)

Last(q) == q[Len(q)]
Range(q) == {q[i] : i \in DOMAIN q}
StartsWith(q, h) == Len(q) >= Len(h) /\ SubSeq(q, 1, Len(h)) = h
\* the places where h occurs in q
Occurrences(q, h) == {i \in 1..(Len(q) - Len(h) + 1) : SubSeq(q, i, i + Len(h) - 1) = h}

InBuild == script = "build_docs"
InAgg   == script = "convert_repo_to_pdf"

\* the tree holds a notebook below a source directory (suffix in any case)
HasNotebook ==
    \E f \in tree :
        /\ f[1] \in {N_articles, N_examples}
        /\ Len(f) >= 2
        /\ EndsWith(LowerStr(f[Len(f)]), E_ipynb)
        /\ Len(f[Len(f)]) > Len(E_ipynb)

\* C1 (as stated): whenever jupyter is absent, the run of build_docs never
\* writes the table of contents.
C1_NoTocWithoutJupyter == (InBuild /\ ~tools.jupyter) => ~tocWritten

\* C1 (amended): when jupyter is absent and gather_sources yields at least one
\* notebook, the run never leaves generate_docs except by an exception
\* (RuntimeError of convert_notebook, or an earlier converter failure), the
\* sources are never all converted without that exception, and the table of
\* contents is never written.
C1_NoTocWithoutJupyterGivenNotebook ==
    (InBuild /\ ~tools.jupyter /\ HasNotebook) =>
        /\ pc \in {"generate_docs", "failed"}
        /\ ~tocWritten
        /\ pc = "failed" => err \in {"RuntimeError", "CalledProcessError"}
        /\ converted = AllSources(tree) => pc = "failed"

C1_Witness ==
    /\ InBuild /\ ~tools.jupyter /\ HasNotebook
    /\ pc = "failed" /\ err = "RuntimeError"
    /\ Len(log) >= 2
    /\ Last(log).op = "convert_notebook"
    /\ log[1].op = "convert_markdown" /\ log[1].raised = "none"

\* C2 (as stated): with pandoc absent, its absence never ends the run with an
\* error, whatever the PDF flag.
C2_MissingPandocNeverFatal ==
    (InBuild /\ ~tools.pandoc) =>
        ~(pc = "failed" /\ Last(log).via = "missing"
            /\ Last(log).op \in {"convert_markdown", "build_pdf"})

\* C2 (amended): with pandoc absent, every convert_markdown call is the
\* verbatim copy and returns, leaving the destination with the source's bytes;
\* a run that succeeds has the PDF flag off, and build_pdf, when reached, raises
\* RuntimeError.
C2_CopyFallbackButPdfNeedsPandoc ==
    (InBuild /\ ~tools.pandoc) =>
        /\ \A i \in DOMAIN log :
              log[i].op = "convert_markdown" =>
                  log[i].via = "copy" /\ log[i].raised = "none"
        /\ (log # <<>> /\ Last(log).op = "convert_markdown") =>
              /\ Dest(Last(log).arg) \in DOMAIN files
              /\ files[Dest(Last(log).arg)] = Raw(Last(log).arg)
              /\ pc # "failed"
        /\ pc = "done" => ~pdfFlag
        /\ (log # <<>> /\ Last(log).op = "build_pdf") =>
              pc = "failed" /\ err = "RuntimeError"

C2_Witness ==
    /\ InBuild /\ ~tools.pandoc /\ pdfFlag
    /\ pc = "failed" /\ Last(log).op = "build_pdf"
    /\ \E i \in DOMAIN log : log[i].op = "convert_markdown" /\ log[i].via = "copy"
    /\ \E i \in DOMAIN log : log[i].op = "convert_markdown"
                             /\ files[Dest(log[i].arg)] = Raw(log[i].arg)

\* build_markdown has returned
AggReturned == InAgg /\ pc \notin {"build_markdown", "loop"}

\* the conversion of p raised
AggRaised(p) ==
    \E i \in DOMAIN log : log[i].op = "convert" /\ log[i].arg = p /\ log[i].raised # "none"

\* "# <path relative to the repository root>" and the blank line after it
Heading(p) == <<"#", " ">> \o PathStr(RelativeTo(p, REPO_ROOT)) \o <<"\n", "\n">>

\* C3: build_markdown never raises; once it has returned, the aggregated
\* document holds exactly one heading-plus-cleaned-content section for each
\* discovered file whose conversion did not raise, none for a file whose
\* conversion raised, and exactly one notice names each skipped file.
C3_PartialFailureTolerance ==
    /\ (InAgg /\ pc = "failed") => (AggReturned /\ Last(log).op # "convert")
    /\ (InAgg /\ pc \in {"build_markdown", "loop"}) => err = "none"
    /\ AggReturned =>
          \A p \in Range(aggPaths) :
              /\ Cardinality({i \in DOMAIN log : log[i].op = "convert" /\ log[i].arg = p}) = 1
              /\ Cardinality(Occurrences(aggResult, Heading(p)))
                    = (IF AggRaised(p) THEN 0 ELSE 1)
              /\ ~AggRaised(p) =>
                    \E body \in TextPool :
                        Occurrences(aggResult,
                                    Heading(p) \o clean_text(body) \o <<"\n">>) # {}
              /\ Cardinality({k \in DOMAIN notices : notices[k] = p})
                    = (IF AggRaised(p) THEN 1 ELSE 0)
    /\ AggReturned => Range(notices) \subseteq Range(aggPaths)

C3_Witness ==
    /\ AggReturned /\ pc = "done"
    /\ Len(aggPaths) = 3
    /\ Len(notices) = 1
    /\ Len(sections) = 2
    /\ AggRaised(aggPaths[2])

\* C4 (as stated): cleaning already-cleaned text yields the same text.
C4_CleanTextIdempotent == pc = "recleaned" => out2 = out1

\* C5 (as stated): no two distinct sources that generate_docs has converted
\* were written to the same destination.
C5_DestInjective ==
    InBuild =>
        \A i \in DOMAIN log : \A j \in DOMAIN log :
            ( /\ log[i].op \in {"convert_markdown", "convert_notebook"}
              /\ log[j].op \in {"convert_markdown", "convert_notebook"}
              /\ log[i].raised = "none" /\ log[j].raised = "none"
              /\ log[i].arg # log[j].arg )
            => Dest(log[i].arg) # Dest(log[j].arg)

\* generate_docs got past its loop: every source converted, none raised
PastConversions ==
    /\ InBuild /\ pc # "generate_docs"
    /\ ~(pc = "failed" /\ Last(log).op \in {"convert_markdown", "convert_notebook"})

\* C6 (as stated): with a README.md in the repository, once generate_docs is
\* through its sources the build root holds an index.md with the README's
\* content.
C6_ReadmeBecomesIndex ==
    (PastConversions /\ README \in tree) =>
        /\ BUILD_DIR \o <<N_index_md>> \in DOMAIN files
        /\ files[BUILD_DIR \o <<N_index_md>>] = Raw(README)

\* the .md files below the build root
BuiltMd == {f \in DOMAIN files : IsPrefix(BUILD_DIR, f) /\ Suffix(f) = E_md}

\* the places <<section index, entry index>> of the written table of contents
TocSlots ==
    UNION {{<<i, j>> : j \in 1..Len(tocDoc[i].entries)} : i \in 1..Len(tocDoc)}

\* C7: in the table of contents generate_toc wrote, every .md file below the
\* build root has exactly one entry, in the section named by the first segment
\* of its path below the build root; the entries of a section are in
\* ascending path order and the sections in ascending key order.
C7_TocGroupsAndSorts ==
    (InBuild /\ tocWritten) =>
        /\ \A f \in BuiltMd :
              LET rel  == RelativeTo(f, BUILD_DIR)
                  hits == {s \in TocSlots : tocDoc[s[1]].entries[s[2]].path = PathStr(rel)}
              IN  /\ Cardinality(hits) = 1
                  /\ \A s \in hits : tocDoc[s[1]].section = rel[1]
        /\ \A i \in 1..Len(tocDoc) :
              \A j \in 1..Len(tocDoc[i].entries) : \A k \in 1..Len(tocDoc[i].entries) :
                  j < k =>
                      \E f \in BuiltMd : \E g \in BuiltMd :
                          /\ tocDoc[i].entries[j].path = PathStr(RelativeTo(f, BUILD_DIR))
                          /\ tocDoc[i].entries[k].path = PathStr(RelativeTo(g, BUILD_DIR))
                          /\ PathLess(f, g)
        /\ \A i \in 1..Len(tocDoc) : \A k \in 1..Len(tocDoc) :
              i < k => StrLess(tocDoc[i].section, tocDoc[k].section)

C7_Witness ==
    /\ InBuild /\ tocWritten
    /\ Len(tocDoc) = 2
    /\ tocDoc[1].section = N_articles
    /\ tocDoc[2].section = N_index_md
    /\ Len(tocDoc[1].entries) = 2
    /\ tocDoc[1].entries[1].path = PathStr(<<N_articles, N_sub, <<"b", ".", "m", "d">> >>)
    /\ tocDoc[1].entries[2].path = PathStr(<<N_articles, N_sub_x, <<"c", ".", "m", "d">> >>)

\* the name has a stem followed by one of the recognized extensions, in any case
HasRecognizedExt(p) ==
    \E e \in {E_md, E_mdx, E_ipynb} :
        /\ Len(p[Len(p)]) > Len(e)
        /\ EndsWith(LowerStr(p[Len(p)]), e)

\* C8: when gather_sources is exhausted it has yielded, once each, exactly the
\* paths below the source directories whose extension, in any case, is .md,
\* .mdx or .ipynb.
C8_ScannerYieldsExactlyRecognized ==
    (script = "gather_sources" /\ pc = "done") =>
        /\ Range(yielded) =
              {q \in UNION {Ancestors(f) \cup {f} : f \in tree} :
                  /\ Len(q) >= 2
                  /\ q[1] \in {N_articles, N_examples}
                  /\ HasRecognizedExt(q)}
        /\ \A i \in DOMAIN yielded : \A j \in DOMAIN yielded : i # j => yielded[i] # yielded[j]

C8_Witness ==
    /\ script = "gather_sources" /\ pc = "done"
    /\ <<N_articles, N_sub_x, N_c_MD>> \in Range(yielded)
    /\ <<N_examples, N_dot_md>> \in tree
    /\ <<N_other, N_x_md>> \in tree
    /\ Len(yielded) = 1

\* a call that ended in an exception other than one file's conversion in
\* build_markdown
Fatal(e) == e.raised # "none" /\ e.op # "convert"

\* C9: a failed call other than one file's conversion in build_markdown is the
\* last call of the run, which ends with that exception; a run ends in an
\* exception only so; a file's failed conversion in build_markdown does not end
\* the run; and no call is made twice.
C9_OnlyAggregationFailuresDowngraded ==
    /\ \A i \in DOMAIN log :
          Fatal(log[i]) => (i = Len(log) /\ pc = "failed" /\ err = log[i].raised)
    /\ pc = "failed" => (log # <<>> /\ Fatal(Last(log)))
    /\ \A i \in DOMAIN log :
          (log[i].op = "convert" /\ log[i].raised # "none") =>
              (i = Len(log) => (pc # "failed" /\ err = "none"))
    /\ \A i \in DOMAIN log : \A j \in DOMAIN log :
          i # j => ~(log[i].op = log[j].op /\ log[i].arg = log[j].arg)

C9_Witness ==
    /\ InBuild /\ pc = "failed" /\ err = "CalledProcessError"
    /\ Last(log).op = "build_html"
    /\ pdfFlag
    /\ Len(log) >= 3

IsNotebookPath(p) == EndsWith(p[Len(p)], E_ipynb)

\* p's section is to come before q's
ListedBefore(p, q) ==
    \/ IsNotebookPath(p) /\ ~IsNotebookPath(q)
    \/ /\ IsNotebookPath(p) = IsNotebookPath(q)
       /\ PathLess(RelativeTo(p, REPO_ROOT), RelativeTo(q, REPO_ROOT))

\* C10: in the document build_markdown returns, every converted file has a
\* section headed by its path relative to the repository root, and the sections
\* stand notebooks first, each group in ascending path order, whichever files
\* were skipped.
C10_NotebooksThenMarkdownSorted ==
    AggReturned =>
        LET kept == {p \in Range(aggPaths) : ~AggRaised(p)}
            Pos(p) == CHOOSE i \in Occurrences(aggResult, Heading(p)) : TRUE
        IN  /\ \A p \in kept : Occurrences(aggResult, Heading(p)) # {}
            /\ \A p \in kept : \A q \in kept :
                  p # q => (Pos(p) < Pos(q) <=> ListedBefore(p, q))
            /\ \A k \in DOMAIN sections :
                  \E p \in kept : StartsWith(sections[k], Heading(p))

C10_Witness ==
    /\ AggReturned
    /\ notices = <<REPO_ROOT \o <<N_articles, N_a_md>> >>
    /\ Occurrences(aggResult, Heading(REPO_ROOT \o <<N_examples, N_sub, N_b_ipynb>>)) = {1}
    /\ Occurrences(aggResult, Heading(REPO_ROOT \o <<N_other, N_x_md>>)) # {}

====
